---- MODULE Spec2Model ----
(***************************************************************************)
(* The invoice ledger of InvoLuckBackend: the Invoice document of          *)
(* src/src/models/user.js (line-item and invoice totals, payments, status  *)
(* transitions) and the save pipeline its pre('save') hooks form.          *)
(*                                                                         *)
(* Money is an integer number of micro-units: 1.00 is 100 * Cent and 0.01  *)
(* is Cent = 10000, so that every percentage the model takes of an amount  *)
(* is an exact integer.  The arithmetic is exact; the JavaScript computes  *)
(* in IEEE doubles.  The amounts of the totals specification are binary    *)
(* fractions (0.125, 0.25, 1.50, ...), on which the doubles give the same  *)
(* cents as the exact arithmetic.  The ledger specification pays amounts   *)
(* ending in half a cent (4.995); there the two agree on every field but   *)
(* the cent a save rounds a remaining balance of exactly half a cent to.   *)
(* Dates are integers on the clock `now`; an unset optional date is the    *)
(* empty sequence and a set one is <<t>>.                                  *)
(***************************************************************************)
EXTENDS Integers, Sequences, FiniteSets, TLC

\* 0.01, the unit Math.round(x * 100) / 100 rounds to
Cent == 10000
\* 0.01, the balance under which addPayment marks the invoice paid
Tolerance == 10000
\* 0.01, the least amount the payment record schema accepts
MinPaymentAmount == 10000
\* the longest invoice number the schema accepts
MaxNumberLength == 50
\* the year the clock starts in
BaseYear == 2024
\* bounds of the model
MaxPayments == 2
MaxTime == 1
MaxRequests == 3
MaxInvoices == 2

\* invoice:  the invoice document in memory
\* now:      the clock new Date() reads
\* stored:   the persisted copies of the document, <<>> before the first save
\* lastCall: the last operation called on the document, its argument and
\*           whether it returned (TRUE) or threw (FALSE)
\* clients:  the documents of the clients collection
\* requests: the requests in flight, each with the step it has reached
VARIABLES invoice, now, stored, lastCall, clients, requests

vars == <<invoice, now, stored, lastCall, clients, requests>>

NoDate == <<>>
At(t) == <<t>>

Statuses == {"draft", "sent", "viewed", "paid", "overdue", "cancelled"}
PaymentMethods == {"cash", "check", "credit_card", "bank_transfer", "paypal", "other"}
DiscountTypes == {"percentage", "fixed"}

(***************************************************************************)
(* Arithmetic                                                              *)
(***************************************************************************)

\* x * r / 100, computed without leaving the 32-bit range
Pct(x, r) == (x \div 100) * r + ((x % 100) * r) \div 100

\* Math.round(x * 100) / 100: to the nearest cent, a tie towards +infinity
Round2(x) == ((x + Cent \div 2) \div Cent) * Cent

RECURSIVE SumSubtotals(_)
SumSubtotals(its) ==
  IF its = <<>> THEN 0 ELSE Head(its).subtotal + SumSubtotals(Tail(its))

RECURSIVE SumAmounts(_)
SumAmounts(ps) ==
  IF ps = <<>> THEN 0 ELSE Head(ps).amount + SumAmounts(Tail(ps))

(***************************************************************************)
(* Instance methods of the invoice document                                *)
(***************************************************************************)

\* faulty variant: the line subtotal is rounded to cents before the tax is taken
calculateItem_Rounded(item) ==
  LET raw == item.quantity * item.unitPrice
      sub == Round2(IF item.discount > 0 THEN raw - Pct(raw, item.discount) ELSE raw)
      tax == Pct(sub, item.taxRate)
  IN  [item EXCEPT !.subtotal = sub, !.taxAmount = tax, !.total = sub + tax]

\* the forEach body of calculateTotals
calculateItem(item) ==
  LET raw == item.quantity * item.unitPrice
      sub == IF item.discount > 0 THEN raw - Pct(raw, item.discount) ELSE raw
      tax == Pct(sub, item.taxRate)
  IN  [item EXCEPT !.subtotal = sub, !.taxAmount = tax, !.total = sub + tax]

\* faulty variant: the invoice tax is taken of the subtotal before the discount
calculateTotals_TaxOnSubtotal(inv) ==
  LET its == [i \in 1..Len(inv.items) |-> calculateItem(inv.items[i])]
      subtotal == SumSubtotals(its)
      discountAmount ==
        IF inv.discountValue > 0
        THEN IF inv.discountType = "percentage"
             THEN Pct(subtotal, inv.discountValue)
             ELSE inv.discountValue
        ELSE 0
      taxableAmount == subtotal - discountAmount
      taxAmount == Pct(subtotal, inv.taxRate)
      total == taxableAmount + taxAmount + inv.shippingCost
      remainingBalance == total - inv.totalPaid
  IN  [inv EXCEPT !.items = its,
                  !.subtotal = Round2(subtotal),
                  !.discountAmount = Round2(discountAmount),
                  !.taxAmount = Round2(taxAmount),
                  !.total = Round2(total),
                  !.remainingBalance = Round2(remainingBalance)]

calculateTotals(inv) ==
  LET its == [i \in 1..Len(inv.items) |-> calculateItem(inv.items[i])]
      subtotal == SumSubtotals(its)
      discountAmount ==
        IF inv.discountValue > 0
        THEN IF inv.discountType = "percentage"
             THEN Pct(subtotal, inv.discountValue)
             ELSE inv.discountValue
        ELSE 0
      taxableAmount == subtotal - discountAmount
      taxAmount == Pct(taxableAmount, inv.taxRate)
      total == taxableAmount + taxAmount + inv.shippingCost
      remainingBalance == total - inv.totalPaid
  IN  [inv EXCEPT !.items = its,
                  !.subtotal = Round2(subtotal),
                  !.discountAmount = Round2(discountAmount),
                  !.taxAmount = Round2(taxAmount),
                  !.total = Round2(total),
                  !.remainingBalance = Round2(remainingBalance)]

\* faulty variant: the tolerance for rounding differences is dropped
fullyPaid_NoTolerance(remainingBalance) == remainingBalance <= 0

\* if (this.remainingBalance <= 0.01)
fullyPaid(remainingBalance) == remainingBalance <= Tolerance

\* faulty variant: the new amount is added to the stored totalPaid
recalculateTotalPaid_Incremental(inv, payments) ==
  inv.totalPaid + payments[Len(payments)].amount

\* this.payments.reduce((sum, p) => sum + p.amount, 0)
recalculateTotalPaid(inv, payments) == SumAmounts(payments)

\* faulty variant: a balance above the tolerance reopens a paid invoice
statusAfterPayment_Reopen(status, remainingBalance) ==
  IF fullyPaid(remainingBalance) THEN "paid"
  ELSE IF status = "paid" THEN "sent" ELSE status

\* faulty variant: a cancelled invoice is never marked paid
statusAfterPayment_KeepCancelled(status, remainingBalance) ==
  IF fullyPaid(remainingBalance) /\ status /= "cancelled" THEN "paid" ELSE status

\* the status after the "update status if fully paid" step
statusAfterPayment(status, remainingBalance) ==
  IF fullyPaid(remainingBalance) THEN "paid" ELSE status

\* a payment record is its amount and method; its date, reference and notes
\* are stored as given and read by nothing
addPayment(inv, payment, t) ==
  LET payments == Append(inv.payments,
                         [amount |-> payment.amount, method |-> payment.method])
      totalPaid == recalculateTotalPaid(inv, payments)
      remainingBalance == inv.total - totalPaid
  IN  [inv EXCEPT !.payments = payments,
                  !.totalPaid = totalPaid,
                  !.remainingBalance = remainingBalance,
                  !.status = statusAfterPayment(@, remainingBalance),
                  !.paidAt = IF fullyPaid(remainingBalance) THEN At(t) ELSE @]

\* faulty variant: the status guard is dropped
markAsSent_Unguarded(inv, t) == [inv EXCEPT !.status = "sent", !.sentAt = At(t)]

markAsSent(inv, t) ==
  IF inv.status = "draft"
  THEN [inv EXCEPT !.status = "sent", !.sentAt = At(t)]
  ELSE inv

\* faulty variant: a draft counts as viewable too
markAsViewed_FromDraft(inv, t) ==
  IF inv.status = "sent" \/ inv.status = "draft"
  THEN [inv EXCEPT !.status = "viewed", !.viewedAt = At(t)]
  ELSE inv

markAsViewed(inv, t) ==
  IF inv.status = "sent"
  THEN [inv EXCEPT !.status = "viewed", !.viewedAt = At(t)]
  ELSE inv

\* faulty variant: the call without payment details records a payment of the
\* remaining balance as well
markAsPaid_Recorded(inv, paymentData, t) ==
  IF paymentData /= <<>>
  THEN LET p == paymentData[1]
       IN  addPayment(inv,
                      [amount |-> IF p.amount /= 0 THEN p.amount ELSE inv.remainingBalance,
                       method |-> IF p.method /= "" THEN p.method ELSE "other"],
                      t)
  ELSE [inv EXCEPT !.status = "paid",
                   !.paidAt = At(t),
                   !.payments = Append(@, [amount |-> inv.remainingBalance,
                                           method |-> "other"]),
                   !.totalPaid = inv.total,
                   !.remainingBalance = 0]

\* faulty variant: the call without payment details leaves totalPaid to the
\* payments list
markAsPaid_LedgerOnly(inv, paymentData, t) ==
  IF paymentData /= <<>>
  THEN LET p == paymentData[1]
       IN  addPayment(inv,
                      [amount |-> IF p.amount /= 0 THEN p.amount ELSE inv.remainingBalance,
                       method |-> IF p.method /= "" THEN p.method ELSE "other"],
                      t)
  ELSE [inv EXCEPT !.status = "paid",
                   !.paidAt = At(t),
                   !.remainingBalance = 0]

\* paymentData is <<>> (no argument) or <<p>>; an amount of 0 and a method of ""
\* stand for the absent (falsy) fields that || replaces
markAsPaid(inv, paymentData, t) ==
  IF paymentData /= <<>>
  THEN LET p == paymentData[1]
       IN  addPayment(inv,
                      [amount |-> IF p.amount /= 0 THEN p.amount ELSE inv.remainingBalance,
                       method |-> IF p.method /= "" THEN p.method ELSE "other"],
                      t)
  ELSE [inv EXCEPT !.status = "paid",
                   !.paidAt = At(t),
                   !.totalPaid = inv.total,
                   !.remainingBalance = 0]

isOverdue(inv, t) ==
  inv.status /= "paid" /\ inv.status /= "cancelled" /\ t > inv.dueDate

(***************************************************************************)
(* The save pipeline: the schema validation, which Mongoose runs before    *)
(* the pre('save') hooks, then the three hooks in the order they are       *)
(* registered, then the write.                                             *)
(***************************************************************************)

validItem(item) ==
  /\ item.quantity >= 1
  /\ item.unitPrice >= 0
  /\ item.taxRate >= 0 /\ item.taxRate <= 100
  /\ item.discount >= 0 /\ item.discount <= 100

validPayment(p) ==
  /\ p.amount >= MinPaymentAmount
  /\ p.method \in PaymentMethods

\* an absent user, client or number is ""; the documents of the model always
\* carry their two required dates
validate(inv) ==
  /\ inv.userId /= ""
  /\ inv.clientId /= ""
  /\ inv.number /= "" /\ Len(inv.number) <= MaxNumberLength
  /\ inv.status \in Statuses
  /\ Len(inv.items) > 0 /\ Len(inv.items) <= 100
  /\ \A i \in 1..Len(inv.items) : validItem(inv.items[i])
  /\ inv.subtotal >= 0
  /\ inv.taxRate >= 0 /\ inv.taxRate <= 100
  /\ inv.taxAmount >= 0
  /\ inv.discountType \in DiscountTypes
  /\ inv.discountValue >= 0
  /\ inv.discountAmount >= 0
  /\ inv.shippingCost >= 0
  /\ inv.total >= 0
  /\ \A i \in 1..Len(inv.payments) : validPayment(inv.payments[i])
  /\ inv.totalPaid >= 0

\* faulty variant: the hook uses isOverdue() as its guard
preSaveStatus_IsOverdue(inv, t) ==
  IF isOverdue(inv, t) THEN [inv EXCEPT !.status = "overdue"] ELSE inv

\* faulty variant: the hook looks at the due date alone
preSaveStatus_DateOnly(inv, t) ==
  IF t > inv.dueDate THEN [inv EXCEPT !.status = "overdue"] ELSE inv

\* faulty variant: an overdue invoice whose due date is no longer past is sent
\* again
preSaveStatus_Rederive(inv, t) ==
  IF (inv.status = "sent" \/ inv.status = "viewed") /\ t > inv.dueDate
  THEN [inv EXCEPT !.status = "overdue"]
  ELSE IF inv.status = "overdue" /\ ~(t > inv.dueDate)
       THEN [inv EXCEPT !.status = "sent"]
       ELSE inv

\* pre('save'): update status based on dates
preSaveStatus(inv, t) ==
  IF (inv.status = "sent" \/ inv.status = "viewed") /\ t > inv.dueDate
  THEN [inv EXCEPT !.status = "overdue"]
  ELSE inv

\* faulty variant: totals are calculated only for a document that has none yet
preSave_TotalsOnce(inv, t) ==
  preSaveStatus(IF inv.total = 0 THEN calculateTotals(inv) ELSE inv, t)

preSave(inv, t) == preSaveStatus(calculateTotals(inv), t)

(***************************************************************************)
(* Construction: new Invoice(data) with the schema defaults                *)
(***************************************************************************)

\* 0.001 * m
Mills(m) == m * (Cent \div 10)

Item(q, p, t, d) ==
  [quantity |-> q, unitPrice |-> p, taxRate |-> t, discount |-> d,
   subtotal |-> 0, taxAmount |-> 0, total |-> 0]

NewInvoice(data) ==
  [userId |-> data.userId,
   clientId |-> data.clientId,
   number |-> data.number,
   issueDate |-> data.issueDate,
   items |-> data.items,
   status |-> data.status,
   dueDate |-> data.dueDate,
   taxRate |-> data.taxRate,
   discountType |-> data.discountType,
   discountValue |-> data.discountValue,
   shippingCost |-> data.shippingCost,
   subtotal |-> 0, taxAmount |-> 0, discountAmount |-> 0, total |-> 0,
   payments |-> <<>>, totalPaid |-> 0, remainingBalance |-> 0,
   sentAt |-> NoDate, viewedAt |-> NoDate, paidAt |-> NoDate]

\* one service at 10.00, no tax, no discount, no shipping: total 10.00
ServiceItems == << Item(1, Mills(10000), 0, 0) >>
\* two services, 2 x 1.00 taxed 10% and 1 x 1.50 discounted 5% and taxed 10%
TestItems == << Item(2, Mills(1000), 10, 0), Item(1, Mills(1500), 10, 5) >>

\* the owner, client and number of the invoice of the ledger specifications
TestIdentity == [userId |-> "u1", clientId |-> "c1", number |-> "TEST-INV-001"]

LedgerInputs ==
  { [userId |-> TestIdentity.userId, clientId |-> TestIdentity.clientId,
     number |-> TestIdentity.number, issueDate |-> 0,
     items |-> ServiceItems, taxRate |-> 0, discountType |-> "percentage",
     discountValue |-> 0, shippingCost |-> 0, status |-> st, dueDate |-> 0]
      : st \in {"draft", "cancelled"} }

PaymentInputs ==
  { [amount |-> Mills(5000), method |-> "bank_transfer"],
    [amount |-> Mills(4995), method |-> "check"],
    [amount |-> Mills(4980), method |-> "paypal"],
    [amount |-> Mills(5), method |-> "cash"] }

PaymentData ==
  { <<>>,
    << [amount |-> 0, method |-> ""] >>,
    << [amount |-> Mills(5000), method |-> "bank_transfer"] >> }

Call(name, arg, ok) == [name |-> name, arg |-> arg, ok |-> ok]

Init ==
  /\ \E data \in LedgerInputs : invoice = NewInvoice(data)
  /\ now = 0
  /\ stored = <<>>
  /\ lastCall = Call("new", <<>>, TRUE)
  /\ clients = <<>>
  /\ requests = <<>>

(***************************************************************************)
(* Operations                                                              *)
(***************************************************************************)

\* invoice.save(): a validation error leaves the document and the store alone
Save ==
  /\ IF validate(invoice)
     THEN /\ invoice' = preSave(invoice, now)
          /\ stored' = << invoice' >>
          /\ lastCall' = Call("save", <<>>, TRUE)
     ELSE /\ UNCHANGED <<invoice, stored>>
          /\ lastCall' = Call("save", <<>>, FALSE)
  /\ UNCHANGED <<now, clients, requests>>

AddPaymentFrom(inputs) ==
  /\ Len(invoice.payments) < MaxPayments
  /\ \E payment \in inputs :
       /\ invoice' = addPayment(invoice, payment, now)
       /\ lastCall' = Call("addPayment", << payment >>, TRUE)
  /\ UNCHANGED <<now, stored, clients, requests>>

AddPayment == AddPaymentFrom(PaymentInputs)

MarkAsSent ==
  /\ invoice' = markAsSent(invoice, now)
  /\ lastCall' = Call("markAsSent", <<>>, TRUE)
  /\ UNCHANGED <<now, stored, clients, requests>>

MarkAsViewed ==
  /\ invoice' = markAsViewed(invoice, now)
  /\ lastCall' = Call("markAsViewed", <<>>, TRUE)
  /\ UNCHANGED <<now, stored, clients, requests>>

MarkAsPaid ==
  /\ \E paymentData \in PaymentData :
       /\ paymentData /= <<>> => Len(invoice.payments) < MaxPayments
       /\ invoice' = markAsPaid(invoice, paymentData, now)
       /\ lastCall' = Call("markAsPaid", paymentData, TRUE)
  /\ UNCHANGED <<now, stored, clients, requests>>

Tick ==
  /\ now < MaxTime
  /\ now' = now + 1
  /\ UNCHANGED <<invoice, stored, lastCall, clients, requests>>

Next ==
  \/ Save
  \/ AddPayment
  \/ MarkAsSent
  \/ MarkAsViewed
  \/ MarkAsPaid
  \/ Tick

Spec == Init /\ [][Next]_vars

(***************************************************************************)
(* The due-date specification: the ledger with a due date the caller moves *)
(* and with payments the payment record schema does not accept.            *)
(***************************************************************************)

\* the due dates the caller sets: one the clock passes, one it never reaches
DueDates == {0, MaxTime + 1}

\* a payment of half the total, a payment of nothing and a payment by a method
\* the schema does not list
DuePayments ==
  { [amount |-> Mills(5000), method |-> "bank_transfer"],
    [amount |-> 0, method |-> "cash"],
    [amount |-> Mills(5000), method |-> "bitcoin"] }

\* invoice.dueDate = d: the caller moves the due date
SetDueDate ==
  /\ \E d \in DueDates :
       /\ d /= invoice.dueDate
       /\ invoice' = [invoice EXCEPT !.dueDate = d]
  /\ lastCall' = Call("setDueDate", <<>>, TRUE)
  /\ UNCHANGED <<now, stored, clients, requests>>

AddDuePayment == AddPaymentFrom(DuePayments)

NextDue ==
  \/ Save
  \/ AddDuePayment
  \/ MarkAsSent
  \/ MarkAsViewed
  \/ MarkAsPaid
  \/ Tick
  \/ SetDueDate

SpecDue == Init /\ [][NextDue]_vars

(***************************************************************************)
(* The totals specification: invoices over a wider range of line items and *)
(* invoice-level parameters, edited and saved, with part payments.         *)
(***************************************************************************)

\* the caller supplied subtotal, taxAmount and total with the item
Supplied(item, v) == [item EXCEPT !.subtotal = v, !.taxAmount = v, !.total = v]

TotalsItems ==
  { TestItems,
    ServiceItems,
    << Item(1, Mills(125), 0, 0) >>,
    << Item(3, Mills(250), 20, 50) >>,
    << Supplied(Item(2, Mills(1000), 10, 0), Mills(7000)), Item(1, Mills(125), 10, 0) >> }

TotalsParams ==
  { [taxRate |-> tr, discountType |-> d[1], discountValue |-> d[2], shippingCost |-> sh]
      : tr \in {0, 10},
        d \in { <<"percentage", 0>>, <<"percentage", 10>>,
                <<"fixed", Mills(125)>>, <<"fixed", 0>> },
        sh \in {0, Mills(250)} }

TotalsInputs ==
  { [userId |-> TestIdentity.userId, clientId |-> TestIdentity.clientId,
     number |-> TestIdentity.number, issueDate |-> 0,
     items |-> its, taxRate |-> pr.taxRate, discountType |-> pr.discountType,
     discountValue |-> pr.discountValue, shippingCost |-> pr.shippingCost,
     status |-> "draft", dueDate |-> 0]
      : its \in TotalsItems, pr \in TotalsParams }

ItemEdits == { ServiceItems, << Item(1, Mills(125), 0, 0) >> }

ParamEdits ==
  { [taxRate |-> 10, discountType |-> "percentage", discountValue |-> 10,
     shippingCost |-> 0],
    [taxRate |-> 0, discountType |-> "fixed", discountValue |-> Mills(125),
     shippingCost |-> Mills(250)] }

PartPayments == { [amount |-> Mills(250), method |-> "cash"] }

InitTotals ==
  /\ \E data \in TotalsInputs : invoice = NewInvoice(data)
  /\ now = 0
  /\ stored = <<>>
  /\ lastCall = Call("new", <<>>, TRUE)
  /\ clients = <<>>
  /\ requests = <<>>

\* invoice.items = items: the caller replaces the line items
SetItems ==
  /\ \E its \in ItemEdits :
       /\ its /= invoice.items
       /\ invoice' = [invoice EXCEPT !.items = its]
  /\ lastCall' = Call("setItems", <<>>, TRUE)
  /\ UNCHANGED <<now, stored, clients, requests>>

\* the caller sets the invoice-level tax, discount and shipping parameters
SetParams ==
  /\ \E pr \in ParamEdits :
       /\ invoice' = [invoice EXCEPT !.taxRate = pr.taxRate,
                                      !.discountType = pr.discountType,
                                      !.discountValue = pr.discountValue,
                                      !.shippingCost = pr.shippingCost]
       /\ invoice' /= invoice
  /\ lastCall' = Call("setParams", <<>>, TRUE)
  /\ UNCHANGED <<now, stored, clients, requests>>

AddPartPayment == AddPaymentFrom(PartPayments)

NextTotals ==
  \/ Save
  \/ SetItems
  \/ SetParams
  \/ AddPartPayment

SpecTotals == InitTotals /\ [][NextTotals]_vars

(***************************************************************************)
(* The store specification: the invoices collection under concurrent       *)
(* creations, new Invoice(data).save(), and updates.  A save is two steps, *)
(* the validation and the pre('save') hooks (which read the collection to  *)
(* count) and then the write, and other requests run between the two.      *)
(* `stored` is the collection, in the order of insertion.                  *)
(***************************************************************************)

\* new Date().getFullYear(), the clock counting years
getFullYear(t) == BaseYear + t

\* s.padStart(n, c)
RECURSIVE padStart(_, _, _)
padStart(s, n, c) == IF Len(s) >= n THEN s ELSE padStart(c \o s, n, c)

\* `INV-${year}-${String(count + 1).padStart(4, '0')}`
invoiceNumber(year, count) ==
  "INV-" \o ToString(year) \o "-" \o padStart(ToString(count + 1), 4, "0")

\* Invoice.countDocuments({ userId })
countDocuments(coll, userId) ==
  Cardinality({ k \in DOMAIN coll : coll[k].userId = userId })

\* pre('save'): auto-generate the invoice number
preSaveNumber(inv, isNew, coll, t) ==
  IF isNew /\ inv.number = ""
  THEN [inv EXCEPT !.number = invoiceNumber(getFullYear(t), countDocuments(coll, inv.userId))]
  ELSE inv

\* the three pre('save') hooks on a document that may be new
preSaveHooks(inv, isNew, coll, t) ==
  preSaveStatus(preSaveNumber(calculateTotals(inv), isNew, coll, t), t)

\* faulty variant: the collection has no unique index
uniqueIndexAllows_NoIndex(coll, k, doc) == TRUE

\* the unique index on (userId, number): the write of doc as document k
\* (0 for an insert) meets no other document of the owner with its number
uniqueIndexAllows(coll, k, doc) ==
  \A j \in DOMAIN coll :
    j /= k => ~(coll[j].userId = doc.userId /\ coll[j].number = doc.number)

\* the body fields of createInvoiceSchema the model varies; the items are
\* one valid line and the other fields take their defaults
createInvoiceSchema(body) ==
  /\ body.number /= "" => Len(body.number) <= MaxNumberLength
  /\ body.dueDate >= body.issueDate

\* an update body is a record of the fields it sets
updateInvoiceSchema(body) ==
  /\ "number" \in DOMAIN body =>
       Len(body.number) >= 1 /\ Len(body.number) <= MaxNumberLength
  /\ DOMAIN body /= {}

\* invoice.set(body)
Assign(doc, body) ==
  [f \in DOMAIN doc |-> IF f \in DOMAIN body THEN body[f] ELSE doc[f]]

\* a number of "" is a body without a number
CreateBody(number, issueDate, dueDate) ==
  [number |-> number, issueDate |-> issueDate, dueDate |-> dueDate]

\* the creations requested: by one user without a number, with either of two
\* numbers and with a due date before the issue date, and by a second user
\* with a number of the first
CreateInputs ==
  { [userId |-> "u1", body |-> CreateBody("", 1, 1)],
    [userId |-> "u1", body |-> CreateBody("INV-2024-0001", 1, 1)],
    [userId |-> "u1", body |-> CreateBody("INV-2024-0002", 1, 1)],
    [userId |-> "u2", body |-> CreateBody("INV-2024-0001", 1, 1)],
    [userId |-> "u1", body |-> CreateBody("INV-2024-0002", 1, 0)] }

UpdateBodies == { [dueDate |-> 0], [number |-> "INV-2024-0002"] }

CreateData(userId, body) ==
  [userId |-> userId, clientId |-> TestIdentity.clientId,
   number |-> body.number, issueDate |-> body.issueDate, dueDate |-> body.dueDate,
   items |-> ServiceItems, taxRate |-> 0, discountType |-> "percentage",
   discountValue |-> 0, shippingCost |-> 0, status |-> "draft"]

\* a request: the body it carries, the document it builds, the step it is at
\* ("presave", "insert", "done") and the error it ended with ("" for none)
Request(userId, body, pc, error) ==
  [userId |-> userId, body |-> body, doc |-> NewInvoice(CreateData(userId, body)),
   pc |-> pc, error |-> error]

InitStore ==
  /\ invoice = <<>>
  /\ now = 0
  /\ stored = <<>>
  /\ lastCall = Call("new", <<>>, TRUE)
  /\ clients = <<>>
  /\ requests = <<>>

\* POST /invoices: the body is validated; a body that passes becomes a
\* document to save, one that fails is answered with a validation error
CreateInvoice ==
  /\ Len(requests) < MaxRequests
  /\ \E input \in CreateInputs :
       IF createInvoiceSchema(input.body)
       THEN /\ requests' = Append(requests, Request(input.userId, input.body, "presave", ""))
            /\ lastCall' = lastCall
       ELSE /\ requests' = requests
            /\ lastCall' = Call("createInvoice", << input >>, FALSE)
  /\ UNCHANGED <<invoice, now, stored, clients>>

\* save(), first half: the validation, then the hooks
SavePre(i) ==
  /\ requests[i].pc = "presave"
  /\ requests' =
       [requests EXCEPT ![i] =
          IF validate(requests[i].doc)
          THEN [@ EXCEPT !.doc = preSaveHooks(@, TRUE, stored, now), !.pc = "insert"]
          ELSE [@ EXCEPT !.pc = "done", !.error = "VALIDATION_ERROR"]]
  /\ UNCHANGED <<invoice, now, stored, lastCall, clients>>

\* save(), second half: the insert, which the unique index may refuse
SaveInsert(i) ==
  /\ requests[i].pc = "insert"
  /\ IF uniqueIndexAllows(stored, 0, requests[i].doc)
     THEN /\ stored' = Append(stored, requests[i].doc)
          /\ requests' = [requests EXCEPT ![i].pc = "done"]
     ELSE /\ stored' = stored
          /\ requests' = [requests EXCEPT ![i].pc = "done", ![i].error = "CONFLICT"]
  /\ UNCHANGED <<invoice, now, lastCall, clients>>

\* PATCH /invoices/:id: the body is validated, set on the document and saved
UpdateInvoice ==
  /\ \E k \in DOMAIN stored, body \in UpdateBodies :
       LET doc == Assign(stored[k], body)
           saved == preSaveHooks(doc, FALSE, stored, now)
           ok == /\ updateInvoiceSchema(body)
                 /\ validate(doc)
                 /\ uniqueIndexAllows(stored, k, saved)
       IN  /\ doc /= stored[k]
           /\ stored' = IF ok THEN [stored EXCEPT ![k] = saved] ELSE stored
           /\ lastCall' = Call("updateInvoice", <<>>, ok)
  /\ UNCHANGED <<invoice, now, clients, requests>>

NextStore ==
  \/ CreateInvoice
  \/ \E i \in DOMAIN requests : SavePre(i)
  \/ \E i \in DOMAIN requests : SaveInsert(i)
  \/ UpdateInvoice

SpecStore == InitStore /\ [][NextStore]_vars

(***************************************************************************)
(* The rollup specification: the clients collection with the financial     *)
(* counters updateFinancials derives from the invoices collection.  The    *)
(* invoices of two clients are created, paid in halves and, the latest      *)
(* first, deleted.                                                         *)
(***************************************************************************)

\* new Client({ userId, ...clientData }) with the schema defaults
NewClient(id, userId, email) ==
  [id |-> id, userId |-> userId, email |-> email,
   totalInvoiced |-> 0, totalPaid |-> 0, outstandingBalance |-> 0,
   invoiceCount |-> 0, lastInvoiceDate |-> NoDate]

RECURSIVE SumTotals(_)
SumTotals(invs) ==
  IF invs = <<>> THEN 0 ELSE Head(invs).total + SumTotals(Tail(invs))

\* { $sum: { $cond: [{ $eq: ['$status', 'paid'] }, '$total', 0] } }
RECURSIVE SumPaidTotals(_)
SumPaidTotals(invs) ==
  IF invs = <<>> THEN 0
  ELSE (IF Head(invs).status = "paid" THEN Head(invs).total ELSE 0)
         + SumPaidTotals(Tail(invs))

\* { $max: '$issueDate' } of a group that is not empty
RECURSIVE MaxIssueDate(_)
MaxIssueDate(invs) ==
  IF Len(invs) = 1 THEN Head(invs).issueDate
  ELSE LET m == MaxIssueDate(Tail(invs))
       IN  IF Head(invs).issueDate > m THEN Head(invs).issueDate ELSE m

\* Invoice.aggregate([{ $match }, { $group }]): one group, or none when no
\* invoice matches
aggregate(coll, clientId) ==
  LET matched == SelectSeq(coll, LAMBDA inv : inv.clientId = clientId)
  IN  IF matched = <<>> THEN <<>>
      ELSE << [totalInvoiced |-> SumTotals(matched),
               totalPaid |-> SumPaidTotals(matched),
               invoiceCount |-> Len(matched),
               lastInvoiceDate |-> MaxIssueDate(matched)] >>

\* faulty variant: a client left without invoices keeps its last invoice date
updateFinancials_KeepDate(client, coll) ==
  LET stats == aggregate(coll, client.id)
  IN  IF Len(stats) > 0
      THEN [client EXCEPT !.totalInvoiced = stats[1].totalInvoiced,
                          !.totalPaid = stats[1].totalPaid,
                          !.invoiceCount = stats[1].invoiceCount,
                          !.lastInvoiceDate = At(stats[1].lastInvoiceDate),
                          !.outstandingBalance =
                             stats[1].totalInvoiced - stats[1].totalPaid]
      ELSE [client EXCEPT !.totalInvoiced = 0,
                          !.totalPaid = 0,
                          !.invoiceCount = 0,
                          !.outstandingBalance = 0]

\* the assignments of updateFinancials, before its save
updateFinancials(client, coll) ==
  LET stats == aggregate(coll, client.id)
  IN  IF Len(stats) > 0
      THEN [client EXCEPT !.totalInvoiced = stats[1].totalInvoiced,
                          !.totalPaid = stats[1].totalPaid,
                          !.invoiceCount = stats[1].invoiceCount,
                          !.lastInvoiceDate = At(stats[1].lastInvoiceDate),
                          !.outstandingBalance =
                             stats[1].totalInvoiced - stats[1].totalPaid]
      ELSE [client EXCEPT !.totalInvoiced = 0,
                          !.totalPaid = 0,
                          !.invoiceCount = 0,
                          !.lastInvoiceDate = NoDate,
                          !.outstandingBalance = 0]

\* the validators of the client's counters
validateClient(client) ==
  /\ client.userId /= ""
  /\ client.email /= ""
  /\ client.totalInvoiced >= 0
  /\ client.totalPaid >= 0
  /\ client.invoiceCount >= 0

\* pre('save'): calculate the outstanding balance
preSaveClient(client) ==
  [client EXCEPT !.outstandingBalance = client.totalInvoiced - client.totalPaid]

\* the invoices created: for the first client issued on day 0 or day 1, for
\* the second on day 0
RollupInputs ==
  { [clientId |-> "c1", issueDate |-> 0],
    [clientId |-> "c1", issueDate |-> 1],
    [clientId |-> "c2", issueDate |-> 0] }

\* the numbers the caller gives its invoices
TestNumber(n) == "TEST-INV-" \o padStart(ToString(n), 3, "0")

RollupData(input, number) ==
  [userId |-> TestIdentity.userId, clientId |-> input.clientId,
   number |-> number, issueDate |-> input.issueDate, dueDate |-> 1,
   items |-> ServiceItems, taxRate |-> 0, discountType |-> "percentage",
   discountValue |-> 0, shippingCost |-> 0, status |-> "draft"]

HalfPayment == [amount |-> Mills(5000), method |-> "bank_transfer"]

InitRollup ==
  /\ invoice = <<>>
  /\ now = 0
  /\ stored = <<>>
  /\ lastCall = Call("new", <<>>, TRUE)
  /\ clients = << NewClient("c1", TestIdentity.userId, "one@example.com"),
                  NewClient("c2", TestIdentity.userId, "two@example.com") >>
  /\ requests = <<>>

\* new Invoice({ userId, clientId, ...data }) and its save
InsertInvoice ==
  /\ Len(stored) < MaxInvoices
  /\ \E input \in RollupInputs, n \in 1..(MaxInvoices + 1) :
       LET doc == NewInvoice(RollupData(input, TestNumber(n)))
       IN  /\ \A m \in 1..(n - 1) :
                ~uniqueIndexAllows(stored, 0, NewInvoice(RollupData(input, TestNumber(m))))
           /\ uniqueIndexAllows(stored, 0, doc)
           /\ validate(doc)
           /\ stored' = Append(stored, preSaveHooks(doc, TRUE, stored, now))
  /\ lastCall' = Call("insertInvoice", <<>>, TRUE)
  /\ UNCHANGED <<invoice, now, clients, requests>>

\* a payment of half the total on a stored invoice that is not paid, saved
PayInvoice ==
  /\ \E k \in DOMAIN stored :
       LET doc == addPayment(stored[k], HalfPayment, now)
       IN  /\ stored[k].status /= "paid"
           /\ validate(doc)
           /\ stored' = [stored EXCEPT ![k] = preSaveHooks(doc, FALSE, stored, now)]
  /\ lastCall' = Call("payInvoice", <<>>, TRUE)
  /\ UNCHANGED <<invoice, now, clients, requests>>

\* Invoice.deleteOne({ _id }) of the invoice created last
DeleteInvoice ==
  /\ stored /= <<>>
  /\ stored' = SubSeq(stored, 1, Len(stored) - 1)
  /\ lastCall' = Call("deleteInvoice", <<>>, TRUE)
  /\ UNCHANGED <<invoice, now, clients, requests>>

\* client.updateFinancials(): the aggregation, the assignments and the save
UpdateFinancials ==
  /\ \E c \in DOMAIN clients :
       LET client == updateFinancials(clients[c], stored)
           ok == validateClient(client)
       IN  /\ clients' = IF ok THEN [clients EXCEPT ![c] = preSaveClient(client)]
                          ELSE clients
           /\ lastCall' = Call("updateFinancials", << c >>, ok)
  /\ UNCHANGED <<invoice, now, stored, requests>>

NextRollup ==
  \/ InsertInvoice
  \/ PayInvoice
  \/ DeleteInvoice
  \/ UpdateFinancials

SpecRollup == InitRollup /\ [][NextRollup]_vars

(***************************************************************************)
(* The clients specification: concurrent createClient requests.  A request *)
(* looks for a client of the user with the email (findOne), then saves a   *)
(* new one; other requests run between the two steps.                      *)
(***************************************************************************)

\* z.string().email().toLowerCase().trim(), on the emails of the model
toLowerCase(email) ==
  IF email = "Ann@Example.com" THEN "ann@example.com" ELSE email

\* the clients requested: one email by two users, and the same email in
\* another case
ClientInputs ==
  { [userId |-> "u1", email |-> "ann@example.com"],
    [userId |-> "u1", email |-> "Ann@Example.com"],
    [userId |-> "u2", email |-> "ann@example.com"] }

\* faulty variant: the collection has no unique index
clientIndexAllows_NoIndex(coll, client) == TRUE

\* the unique index on (userId, email)
clientIndexAllows(coll, client) ==
  \A k \in DOMAIN coll :
    ~(coll[k].userId = client.userId /\ coll[k].email = client.email)

\* Client.findOne({ userId, email }): the clients found
findOne(coll, userId, email) ==
  { k \in DOMAIN coll : coll[k].userId = userId /\ coll[k].email = email }

\* a createClient request: the user, the email of the validated body, the
\* step it is at ("find", "save", "done"), the error code it ended with and
\* what raised it (the service's check or the index)
ClientRequest(userId, email) ==
  [userId |-> userId, email |-> email, pc |-> "find", error |-> "", raisedBy |-> ""]

InitClients ==
  /\ invoice = <<>>
  /\ now = 0
  /\ stored = <<>>
  /\ lastCall = Call("new", <<>>, TRUE)
  /\ clients = <<>>
  /\ requests = <<>>

\* POST /clients: the body passes createClientSchema
CreateClient ==
  /\ Len(requests) < MaxRequests
  /\ \E input \in ClientInputs :
       requests' = Append(requests, ClientRequest(input.userId, toLowerCase(input.email)))
  /\ UNCHANGED <<invoice, now, stored, lastCall, clients>>

\* createClient, up to the await of findOne: a client found is a conflict
FindExisting(i) ==
  /\ requests[i].pc = "find"
  /\ requests' =
       [requests EXCEPT ![i] =
          IF findOne(clients, @.userId, @.email) /= {}
          THEN [@ EXCEPT !.pc = "done", !.error = "CONFLICT", !.raisedBy = "service"]
          ELSE [@ EXCEPT !.pc = "save"]]
  /\ UNCHANGED <<invoice, now, stored, lastCall, clients>>

\* createClient, from new Client(...) on: the save, whose duplicate key error
\* the error handler answers as a conflict
SaveClient(i) ==
  /\ requests[i].pc = "save"
  /\ LET client == NewClient("c" \o ToString(Len(clients) + 1),
                             requests[i].userId, requests[i].email)
     IN  IF ~validateClient(client)
         THEN /\ clients' = clients
              /\ requests' = [requests EXCEPT ![i].pc = "done",
                                               ![i].error = "VALIDATION_ERROR"]
         ELSE IF clientIndexAllows(clients, client)
         THEN /\ clients' = Append(clients, preSaveClient(client))
              /\ requests' = [requests EXCEPT ![i].pc = "done"]
         ELSE /\ clients' = clients
              /\ requests' = [requests EXCEPT ![i].pc = "done",
                                               ![i].error = "CONFLICT",
                                               ![i].raisedBy = "index"]
  /\ UNCHANGED <<invoice, now, stored, lastCall>>

NextClients ==
  \/ CreateClient
  \/ \E i \in DOMAIN requests : FindExisting(i)
  \/ \E i \in DOMAIN requests : SaveClient(i)

SpecClients == InitClients /\ [][NextClients]_vars

(***************************************************************************)
(* The discount specification: invoices whose fixed discount exceeds their *)
(* subtotal, saved when new and saved again by later requests.  A request  *)
(* ends with its save, and the next one reads the document back from the   *)
(* store (findById) before it edits and saves it.  The validators then see *)
(* the defaults of a new document and the stored values of one read back,  *)
(* which are the paths Mongoose validates (default, modified and           *)
(* initialised ones).                                                      *)
(***************************************************************************)

\* a fixed discount of 20.00 or of 5.00, with 10% tax or none
DiscountParams ==
  { [taxRate |-> tr, discountType |-> "fixed", discountValue |-> dv, shippingCost |-> 0]
      : tr \in {0, 10}, dv \in {Mills(20000), Mills(5000)} }

DiscountInputs ==
  { [userId |-> TestIdentity.userId, clientId |-> TestIdentity.clientId,
     number |-> TestIdentity.number, issueDate |-> 0,
     items |-> its, taxRate |-> pr.taxRate, discountType |-> pr.discountType,
     discountValue |-> pr.discountValue, shippingCost |-> pr.shippingCost,
     status |-> "draft", dueDate |-> 0]
      : its \in {ServiceItems, TestItems}, pr \in DiscountParams }

InitDiscount ==
  /\ \E data \in DiscountInputs : invoice = NewInvoice(data)
  /\ now = 0
  /\ stored = <<>>
  /\ lastCall = Call("new", <<>>, TRUE)
  /\ clients = <<>>
  /\ requests = <<>>

\* Invoice.findById(id): the document is read back from the store
FindById ==
  /\ stored /= <<>>
  /\ invoice' = stored[1]
  /\ lastCall' = Call("findById", <<>>, TRUE)
  /\ UNCHANGED <<now, stored, clients, requests>>

\* the request has not yet ended with a save
InRequest == lastCall.name /= "save"

NextDiscount ==
  \/ FindById
  \/ /\ InRequest
     /\ \/ Save
        \/ SetItems
        \/ SetParams
        \/ AddPartPayment
        \/ MarkAsSent

SpecDiscount == InitDiscount /\ [][NextDiscount]_vars

(***************************************************************************)
(* The numbering specification: the numbering hook as a function of the    *)
(* invoices collection.  Callers create invoices under the numbers the     *)
(* hook's rule gives (an explicit number passes the validation and the     *)
(* hook leaves it alone), invoices are deleted and years pass; the hook is *)
(* then applied to a new document that carries no number.  `invoice` is    *)
(* that document after the hook.                                           *)
(***************************************************************************)

Owners == {"u1", "u2"}

\* a new document of the owner, dated today, with the number given
NumberedDoc(userId, number, t) ==
  NewInvoice(CreateData(userId, CreateBody(number, t, t)))

InitNumbering ==
  /\ invoice = <<>>
  /\ now = 0
  /\ stored = <<>>
  /\ lastCall = Call("new", <<>>, TRUE)
  /\ clients = <<>>
  /\ requests = <<>>

\* new Invoice({ number, ... }).save() with the number that follows the
\* owner's count; the unique index may refuse the insert
CreateNumbered ==
  /\ Len(stored) < MaxInvoices
  /\ \E userId \in Owners :
       LET number == invoiceNumber(getFullYear(now), countDocuments(stored, userId))
           doc == NumberedDoc(userId, number, now)
           ok == validate(doc) /\ uniqueIndexAllows(stored, 0, doc)
       IN  /\ stored' = IF ok THEN Append(stored, preSaveHooks(doc, TRUE, stored, now))
                        ELSE stored
           /\ lastCall' = Call("createNumbered", << userId >>, ok)
  /\ UNCHANGED <<invoice, now, clients, requests>>

\* Invoice.deleteOne({ _id }) of any stored invoice
DeleteOne ==
  /\ \E k \in DOMAIN stored :
       stored' = [j \in 1..(Len(stored) - 1) |-> IF j < k THEN stored[j] ELSE stored[j + 1]]
  /\ lastCall' = Call("deleteOne", <<>>, TRUE)
  /\ UNCHANGED <<invoice, now, clients, requests>>

\* the numbering hook on a new document without a number
NumberHook ==
  /\ \E userId \in Owners :
       /\ invoice' = preSaveNumber(NumberedDoc(userId, "", now), TRUE, stored, now)
       /\ lastCall' = Call("preSaveNumber", << userId >>, TRUE)
  /\ UNCHANGED <<now, stored, clients, requests>>

NextNumbering ==
  \/ CreateNumbered
  \/ DeleteOne
  \/ NumberHook
  \/ Tick

SpecNumbering == InitNumbering /\ [][NextNumbering]_vars

(***************************************************************************)
(* Properties                                                              *)
(***************************************************************************)

\* the step is a call of the operation `name` that returned
Called(name) == lastCall'.name = name /\ lastCall'.ok /\ now' = now

Last(seq) == seq[Len(seq)]

\* C1: addPayment appends exactly one payment record, sets totalPaid to the
\* sum of the amounts of all payments, sets remainingBalance to
\* total - totalPaid, and sets status = paid and paidAt = now exactly when
\* that remainingBalance is <= 0.01; otherwise status is left as it was.
C1_AddPaymentContract ==
  [][ Called("addPayment") =>
        LET payment == lastCall'.arg[1]
            n == Len(invoice.payments)
            after == invoice'
        IN  /\ Len(after.payments) = n + 1
            /\ SubSeq(after.payments, 1, n) = invoice.payments
            /\ Last(after.payments).amount = payment.amount
            /\ Last(after.payments).method = payment.method
            /\ after.totalPaid = SumAmounts(after.payments)
            /\ after.total = invoice.total
            /\ after.remainingBalance = invoice.total - after.totalPaid
            /\ IF after.remainingBalance <= Tolerance
               THEN after.status = "paid" /\ after.paidAt = At(now)
               ELSE after.status = invoice.status /\ after.paidAt = invoice.paidAt
    ]_vars

\* a part payment on a sent invoice: recorded, balance updated, still sent
C1_Witness ==
  /\ lastCall.name = "addPayment"
  /\ invoice.status = "sent"
  /\ Len(invoice.payments) = 1
  /\ invoice.totalPaid = Mills(5000)
  /\ invoice.remainingBalance = Mills(5000)

\* the invoice has been saved: a copy of it is in the store
Saved == stored /= <<>>

\* C2: on a saved invoice, addPayment calls whose amounts sum exactly to total
\* end with status = paid, remainingBalance = 0 and paidAt set; calls summing
\* to total - 0.005 also end with status = paid; a call that brings the sum
\* to total - 0.02 does not set status = paid.
C2_PaymentConvergence ==
  [][ (Called("addPayment") /\ Saved) =>
        LET after == invoice'
            sum == SumAmounts(after.payments)
        IN  /\ sum = after.total =>
                 /\ after.status = "paid"
                 /\ after.remainingBalance = 0
                 /\ after.paidAt /= NoDate
            /\ sum = after.total - Mills(5) => after.status = "paid"
            /\ sum = after.total - Mills(20) => after.status = invoice.status
    ]_vars

\* two payments, 5.00 and 4.995, on a sent invoice of 10.00: paid
C2_Witness ==
  /\ lastCall.name = "addPayment"
  /\ Saved
  /\ invoice.total = Mills(10000)
  /\ Len(invoice.payments) = 2
  /\ SumAmounts(invoice.payments) = invoice.total - Mills(5)
  /\ invoice.sentAt /= NoDate
  /\ invoice.status = "paid"

\* C8: once status is paid, every further addPayment, with any amount, leaves
\* status = paid.
C8_AddPaymentKeepsPaid ==
  [][ (Called("addPayment") /\ invoice.status = "paid") => invoice'.status = "paid" ]_vars

\* a payment on a paid invoice that leaves a balance above the tolerance
C8_Witness ==
  /\ lastCall.name = "addPayment"
  /\ invoice.status = "paid"
  /\ invoice.remainingBalance > Tolerance
  /\ invoice.total > 0

\* the amounts the aggregation of section 4.2 yields for the document's current
\* line items and parameters, before rounding; percentages are exact
LineSubtotal(item) == (item.quantity * item.unitPrice * (100 - item.discount)) \div 100

RECURSIVE SumLines(_)
SumLines(its) == IF its = <<>> THEN 0 ELSE LineSubtotal(Head(its)) + SumLines(Tail(its))

AggSubtotal(inv) == SumLines(inv.items)
AggDiscount(inv) ==
  IF inv.discountValue = 0 THEN 0
  ELSE IF inv.discountType = "percentage"
       THEN (AggSubtotal(inv) * inv.discountValue) \div 100
       ELSE inv.discountValue
AggTax(inv) == ((AggSubtotal(inv) - AggDiscount(inv)) * inv.taxRate) \div 100
AggTotal(inv) == (AggSubtotal(inv) - AggDiscount(inv)) + AggTax(inv) + inv.shippingCost
AggBalance(inv) == AggTotal(inv) - inv.totalPaid

\* r is x rounded to 2 decimals: a whole number of cents nearest to x
IsRounded(r, x) == r % Cent = 0 /\ 2 * (r - x) <= Cent /\ 2 * (x - r) <= Cent

\* what the aggregation reads: the items' inputs and the invoice parameters
Inputs(inv) ==
  << [i \in 1..Len(inv.items) |->
        << inv.items[i].quantity, inv.items[i].unitPrice,
           inv.items[i].discount, inv.items[i].taxRate >>],
     inv.taxRate, inv.discountType, inv.discountValue, inv.shippingCost >>

Totals(inv) == << inv.subtotal, inv.discountAmount, inv.taxAmount, inv.total >>

\* C3: after every save the stored subtotal, discountAmount, taxAmount, total
\* and remainingBalance are the aggregation of the invoice's current items and
\* parameters, and a save with items and parameters unchanged since the last
\* save yields the totals that save stored (and, with totalPaid unchanged too,
\* its remainingBalance).
C3_TotalsFreshOnSave ==
  [][ Called("save") =>
        LET after == invoice'
        IN  /\ stored' = << after >>
            /\ Inputs(after) = Inputs(invoice)
            /\ after.totalPaid = invoice.totalPaid
            /\ IsRounded(after.subtotal, AggSubtotal(invoice))
            /\ IsRounded(after.discountAmount, AggDiscount(invoice))
            /\ IsRounded(after.taxAmount, AggTax(invoice))
            /\ IsRounded(after.total, AggTotal(invoice))
            /\ IsRounded(after.remainingBalance, AggBalance(invoice))
            /\ (Saved /\ Inputs(stored[1]) = Inputs(invoice)) =>
                 /\ Totals(after) = Totals(stored[1])
                 /\ stored[1].totalPaid = invoice.totalPaid
                       => after.remainingBalance = stored[1].remainingBalance
    ]_vars

\* a save after an earlier save and a part payment (the payment left the
\* invoice a draft, so it met a total already saved)
C3_Witness ==
  /\ lastCall.name = "save" /\ lastCall.ok
  /\ stored = << invoice >>
  /\ invoice.status = "draft"
  /\ Len(invoice.payments) = 1
  /\ invoice.total > Mills(1000)
  /\ invoice.remainingBalance = invoice.total - Mills(250)

\* C4: calculateTotals sets every line item's subtotal to
\* quantity * unitPrice * (1 - discount/100), its taxAmount to
\* subtotal * taxRate/100 and its total to subtotal + taxAmount, over any
\* values the caller supplied, with no rounding.
C4_LineItemArithmetic ==
  (lastCall.name = "save" /\ lastCall.ok) =>
    \A i \in 1..Len(invoice.items) :
      LET item == invoice.items[i]
      IN  /\ 100 * item.subtotal = item.quantity * item.unitPrice * (100 - item.discount)
          /\ 100 * item.taxAmount = item.subtotal * item.taxRate
          /\ item.total = item.subtotal + item.taxAmount

\* the items supplied with subtotal = taxAmount = total = 7.00, saved: the
\* second line keeps its unrounded 0.125 and 0.0125
C4_Witness ==
  /\ lastCall.name = "save" /\ lastCall.ok
  /\ Len(invoice.items) = 2
  /\ invoice.items[1].subtotal = Mills(2000)
  /\ invoice.items[1].total = Mills(2200)
  /\ invoice.items[2].subtotal = Mills(125)
  /\ 10 * invoice.items[2].taxAmount = Mills(125)

\* C5: calculateTotals sets subtotal to the sum of the item subtotals,
\* discountAmount to subtotal * discountValue/100 (percentage), discountValue
\* (fixed) or 0 (discountValue 0), taxAmount to
\* (subtotal - discountAmount) * taxRate/100, total to
\* (subtotal - discountAmount) + taxAmount + shippingCost and remainingBalance
\* to total - totalPaid, each then rounded to 2 decimals.
C5_InvoiceAggregation ==
  (lastCall.name = "save" /\ lastCall.ok) =>
    LET subtotal == SumSubtotals(invoice.items)
        discountAmount ==
          IF invoice.discountValue = 0 THEN 0
          ELSE IF invoice.discountType = "percentage"
               THEN (subtotal * invoice.discountValue) \div 100
               ELSE invoice.discountValue
        taxAmount == ((subtotal - discountAmount) * invoice.taxRate) \div 100
        total == (subtotal - discountAmount) + taxAmount + invoice.shippingCost
    IN  /\ invoice.discountType = "percentage" => (subtotal * invoice.discountValue) % 100 = 0
        /\ ((subtotal - discountAmount) * invoice.taxRate) % 100 = 0
        /\ IsRounded(invoice.subtotal, subtotal)
        /\ IsRounded(invoice.discountAmount, discountAmount)
        /\ IsRounded(invoice.taxAmount, taxAmount)
        /\ IsRounded(invoice.total, total)
        /\ IsRounded(invoice.remainingBalance, total - invoice.totalPaid)

\* the test items under a 10% discount, 10% tax and 0.25 shipping:
\* 3.425, 0.3425, 0.30825 and 3.64075 stored as 3.43, 0.34, 0.31 and 3.64
C5_Witness ==
  /\ lastCall.name = "save" /\ lastCall.ok
  /\ invoice.discountType = "percentage" /\ invoice.discountValue = 10
  /\ invoice.taxRate = 10 /\ invoice.shippingCost = Mills(250)
  /\ invoice.subtotal = Mills(3430)
  /\ invoice.discountAmount = Mills(340)
  /\ invoice.taxAmount = Mills(310)
  /\ invoice.total = Mills(3640)

\* C6: a save of an invoice whose status is sent or viewed, at a time later
\* than dueDate, makes the status overdue; a save never moves a draft to
\* overdue, whatever its dueDate.
C6_OverdueOnSave ==
  [][ Called("save") =>
        /\ (invoice.status \in {"sent", "viewed"} /\ now > invoice.dueDate)
              => invoice'.status = "overdue"
        /\ invoice.status = "draft" => invoice'.status = "draft"
    ]_vars

\* an invoice sent by markAsSent and saved after its due date
C6_Witness ==
  /\ lastCall.name = "save" /\ lastCall.ok
  /\ invoice.status = "overdue"
  /\ invoice.sentAt /= NoDate
  /\ now > invoice.dueDate

\* C7: once status is paid or cancelled, no save and no call of markAsSent or
\* markAsViewed changes it, whatever dueDate and the current time are.
C7_PaidCancelledStay ==
  [][ ( /\ invoice.status \in {"paid", "cancelled"}
        /\ Called("save") \/ Called("markAsSent") \/ Called("markAsViewed") )
      => invoice'.status = invoice.status
    ]_vars

\* a cancelled invoice saved after its due date
C7_Witness ==
  /\ lastCall.name = "save" /\ lastCall.ok
  /\ invoice.status = "cancelled"
  /\ now > invoice.dueDate
  /\ Saved

\* C9: markAsSent changes status to sent and sets sentAt only when status is
\* draft; in any other status it leaves every field unchanged.
C9_MarkAsSentFrame ==
  [][ Called("markAsSent") =>
        /\ IF invoice.status = "draft"
           THEN invoice' = [invoice EXCEPT !.status = "sent", !.sentAt = At(now)]
           ELSE invoice' = invoice
        /\ stored' = stored
    ]_vars

\* markAsSent called on a viewed invoice that was sent earlier: sentAt is kept
C9_Witness ==
  /\ lastCall.name = "markAsSent"
  /\ invoice.status = "viewed"
  /\ invoice.sentAt = At(0)
  /\ now = 1

\* C10: markAsViewed changes status to viewed and sets viewedAt only when
\* status is sent; in any other status it leaves every field unchanged.
C10_MarkAsViewedFrame ==
  [][ Called("markAsViewed") =>
        /\ IF invoice.status = "sent"
           THEN invoice' = [invoice EXCEPT !.status = "viewed", !.viewedAt = At(now)]
           ELSE invoice' = invoice
        /\ stored' = stored
    ]_vars

\* markAsViewed called on a draft: nothing changes
C10_Witness ==
  /\ lastCall.name = "markAsViewed"
  /\ invoice.status = "draft"
  /\ invoice.viewedAt = NoDate
  /\ Saved

\* C11: once the status is overdue, no save, markAsSent, markAsViewed,
\* addPayment or markAsPaid (nor a change of dueDate, nor the passing of time)
\* returns it to sent or viewed: it stays overdue or becomes paid or cancelled.
C11_OverdueNeverReverts ==
  [][ invoice.status = "overdue" => invoice'.status \in {"overdue", "paid", "cancelled"} ]_vars

\* an overdue invoice saved again after its due date was moved past the clock
C11_Witness ==
  /\ lastCall.name = "save" /\ lastCall.ok
  /\ invoice.status = "overdue"
  /\ invoice.dueDate > now
  /\ stored = << invoice >>

\* C12: markAsPaid() without payment details sets status = paid, paidAt = now,
\* totalPaid = total and remainingBalance = 0 and leaves the payments list (and
\* every other field) as it was, whatever the status was.
C12_MarkAsPaidOverride ==
  [][ (Called("markAsPaid") /\ lastCall'.arg = <<>>) =>
        /\ invoice' = [invoice EXCEPT !.status = "paid",
                                       !.paidAt = At(now),
                                       !.totalPaid = invoice.total,
                                       !.remainingBalance = 0]
        /\ invoice'.payments = invoice.payments
        /\ stored' = stored
    ]_vars

\* markAsPaid() on a cancelled invoice with one part payment on record
C12_Witness ==
  /\ lastCall.name = "markAsPaid" /\ lastCall.arg = <<>>
  /\ invoice.status = "paid"
  /\ invoice.sentAt = NoDate
  /\ Len(invoice.payments) = 1
  /\ invoice.totalPaid = invoice.total
  /\ invoice.totalPaid /= SumAmounts(invoice.payments)
  /\ invoice.remainingBalance = 0

\* the payment markAsPaid(paymentData) hands to addPayment
DelegatedPayment(inv, p) ==
  [amount |-> IF p.amount /= 0 THEN p.amount ELSE inv.remainingBalance,
   method |-> IF p.method /= "" THEN p.method ELSE "other"]

\* C13: markAsPaid(paymentData) with payment details appends one
\* payment, of paymentData.amount when given and else of the current
\* remainingBalance; on a saved invoice with remainingBalance > 0 and no amount
\* given the result is that one payment of exactly the remaining balance,
\* status = paid and remainingBalance = 0.
C13_MarkAsPaidSettles ==
  [][ (Called("markAsPaid") /\ lastCall'.arg /= <<>>) =>
        LET p == lastCall'.arg[1]
            after == invoice'
        IN  /\ after.payments = Append(invoice.payments, DelegatedPayment(invoice, p))
            /\ (Saved /\ invoice.remainingBalance > 0 /\ p.amount = 0) =>
                  /\ Last(after.payments).amount = invoice.remainingBalance
                  /\ after.status = "paid"
                  /\ after.remainingBalance = 0
    ]_vars

\* C18: a payment whose amount is not greater than 0, or whose method is not
\* one of the six listed, is rejected with a validation error, and the
\* invoice's payments, totalPaid, remainingBalance and status are left as
\* they were before the call.
C18_InvalidPaymentRejected ==
  [][ ( /\ lastCall'.name = "addPayment" /\ now' = now
        /\ \/ lastCall'.arg[1].amount <= 0
           \/ lastCall'.arg[1].method \notin PaymentMethods )
      => /\ ~lastCall'.ok
         /\ invoice'.payments = invoice.payments
         /\ invoice'.totalPaid = invoice.totalPaid
         /\ invoice'.remainingBalance = invoice.remainingBalance
         /\ invoice'.status = invoice.status
    ]_vars

\* the request has run the first half of its save, and has written nothing
PreSaved(r) == r.pc = "insert" \/ (r.pc = "done" /\ r.error /= "")

\* C14: a new invoice saved without a number is assigned
\* INV-<currentYear>-<sequence>, the sequence being the count of the owner's
\* existing invoices plus 1, padded to 4 digits, and the save succeeds; a
\* number the caller supplied is never replaced.
C14_AutoNumbering ==
  \A i \in DOMAIN requests :
    LET r == requests[i]
    IN  (r.pc = "done" /\ createInvoiceSchema(r.body)) =>
          IF r.body.number = ""
          THEN /\ r.error = ""
               /\ \E k \in DOMAIN stored : stored[k] = r.doc
               /\ \E n \in 0..(Len(stored) - 1) :
                    r.doc.number = invoiceNumber(getFullYear(now), n)
          ELSE r.doc.number = r.body.number

\* C15: two creations of one owner without numbers that have both run their
\* numbering hook before either has written have both computed the same
\* invoice number.
C15_NumberingRace ==
  \A i, j \in DOMAIN requests :
    LET r == requests[i]
        q == requests[j]
    IN  ( /\ i /= j
          /\ r.userId = q.userId
          /\ r.body.number = "" /\ q.body.number = ""
          /\ createInvoiceSchema(r.body) /\ createInvoiceSchema(q.body)
          /\ PreSaved(r) /\ PreSaved(q) )
        => (r.doc.number /= "" /\ r.doc.number = q.doc.number)

\* no two documents of one owner carry the same number
UniqueNumbers(coll) ==
  \A j, k \in DOMAIN coll :
    (j /= k /\ coll[j].userId = coll[k].userId) => coll[j].number /= coll[k].number

\* C16: no two persisted invoices of one owner have the same number: an
\* insert of a number the owner already has ends in a conflict and leaves the
\* store unchanged, an insert of a number only other owners have is written,
\* and an update that is refused leaves the store unchanged.
C16_UniqueNumberPerOwner ==
  [][ /\ UniqueNumbers(stored')
      /\ \A i \in DOMAIN requests :
           (requests[i].pc = "insert" /\ requests'[i].pc = "done") =>
             LET doc == requests[i].doc
                 taken == \E k \in DOMAIN stored :
                            stored[k].userId = doc.userId /\ stored[k].number = doc.number
             IN  IF taken
                 THEN requests'[i].error = "CONFLICT" /\ stored' = stored
                 ELSE requests'[i].error = "" /\ stored' = Append(stored, doc)
      /\ (requests' = requests /\ ~lastCall'.ok) => stored' = stored
    ]_vars

\* two owners hold the same number, and a second creation of it by one of
\* them ended in a conflict
C16_Witness ==
  /\ Len(stored) = 2
  /\ stored[1].number = stored[2].number
  /\ stored[1].userId /= stored[2].userId
  /\ \E i \in DOMAIN requests :
       /\ requests[i].error = "CONFLICT"
       /\ requests[i].doc.number = stored[1].number

\* C17: every persisted invoice has dueDate >= issueDate, and a creation that
\* would break this ends in a validation error.
C17_DueNotBeforeIssue ==
  /\ \A k \in DOMAIN stored : stored[k].dueDate >= stored[k].issueDate
  /\ lastCall.name = "createInvoice" =>
       LET body == lastCall.arg[1].body
       IN  body.dueDate < body.issueDate => ~lastCall.ok

\* the invoices of the collection that belong to the client
InvoicesOf(coll, clientId) == { k \in DOMAIN coll : coll[k].clientId = clientId }

\* the sum of the amounts amount[k] for k in S
RECURSIVE SumOver(_, _)
SumOver(amount, S) ==
  IF S = {} THEN 0
  ELSE LET k == CHOOSE x \in S : TRUE
       IN  amount[k] + SumOver(amount, S \ {k})

TotalOf(coll) == [k \in DOMAIN coll |-> coll[k].total]
TotalPaidOf(coll) == [k \in DOMAIN coll |-> coll[k].totalPaid]
TotalIfPaid(coll) ==
  [k \in DOMAIN coll |-> IF coll[k].status = "paid" THEN coll[k].total ELSE 0]

\* the counters but totalPaid, as C19 states them, of client c after a call
\* of updateFinancials on it
RollupCounters(client, coll) ==
  LET S == InvoicesOf(coll, client.id)
  IN  /\ client.totalInvoiced = SumOver(TotalOf(coll), S)
      /\ client.invoiceCount = Cardinality(S)
      /\ client.outstandingBalance = client.totalInvoiced - client.totalPaid
      /\ IF S = {}
         THEN client.lastInvoiceDate = NoDate /\ client.totalPaid = 0
         ELSE \E k \in S :
                /\ client.lastInvoiceDate = At(coll[k].issueDate)
                /\ \A j \in S : coll[j].issueDate <= coll[k].issueDate

\* C19, as stated: updateFinancials stores totalInvoiced = the sum of total
\* over the client's invoices S, totalPaid = the amount paid across S,
\* invoiceCount = |S|, lastInvoiceDate = the latest issueDate in S and
\* outstandingBalance = totalInvoiced - totalPaid; for an empty S the counters
\* are 0 and lastInvoiceDate is unset.
C19_RollupAmountPaid ==
  [][ (lastCall'.name = "updateFinancials" /\ stored' = stored) =>
        LET client == clients'[lastCall'.arg[1]]
        IN  /\ RollupCounters(client, stored)
            /\ client.totalPaid =
                 SumOver(TotalPaidOf(stored), InvoicesOf(stored, client.id))
    ]_vars

\* C19, amended: as stated, with totalPaid = the sum of total over the
\* invoices of S whose status is paid.
C19_RollupPaidTotals ==
  [][ (lastCall'.name = "updateFinancials" /\ stored' = stored) =>
        LET client == clients'[lastCall'.arg[1]]
        IN  /\ RollupCounters(client, stored)
            /\ client.totalPaid =
                 SumOver(TotalIfPaid(stored), InvoicesOf(stored, client.id))
    ]_vars

\* the first client after a rollup over a paid invoice issued on day 0 and a
\* half-paid one issued on day 1: 20.00 invoiced, 10.00 paid, 10.00 outstanding
C19_Witness ==
  /\ lastCall.name = "updateFinancials" /\ lastCall.arg = << 1 >>
  /\ Cardinality(InvoicesOf(stored, "c1")) = 2
  /\ \E j, k \in InvoicesOf(stored, "c1") :
       /\ stored[j].status = "paid" /\ stored[j].issueDate = 0
       /\ stored[k].status = "draft" /\ stored[k].totalPaid = Mills(5000)
       /\ stored[k].issueDate = 1
  /\ clients[1].totalInvoiced = Mills(20000)
  /\ clients[1].totalPaid = Mills(10000)
  /\ clients[1].outstandingBalance = Mills(10000)
  /\ clients[1].invoiceCount = 2
  /\ clients[1].lastInvoiceDate = At(1)

\* no two clients of one user have the same email
UniqueEmails(coll) ==
  \A j, k \in DOMAIN coll :
    (j /= k /\ coll[j].userId = coll[k].userId) => coll[j].email /= coll[k].email

\* C20: client emails are unique within a user: a createClient whose email a
\* client of the same user already has ends with the error CONFLICT and adds
\* no client, whether the existing client is met by the lookup or, for two
\* concurrent requests, by the insert; the same email under another user is
\* accepted.
C20_UniqueEmailPerUser ==
  [][ /\ UniqueEmails(clients')
      /\ \A i \in DOMAIN requests :
           (requests[i].pc /= "done" /\ requests'[i].pc = "done") =>
             LET r == requests[i]
                 taken == \E k \in DOMAIN clients :
                            clients[k].userId = r.userId /\ clients[k].email = r.email
             IN  IF taken
                 THEN requests'[i].error = "CONFLICT" /\ clients' = clients
                 ELSE /\ requests'[i].error = ""
                      /\ Len(clients') = Len(clients) + 1
                      /\ clients'[Len(clients')].userId = r.userId
                      /\ clients'[Len(clients')].email = r.email
    ]_vars

\* two users each have a client with the email, and a second request of one
\* of them that passed the lookup was refused by the insert as a conflict
C20_Witness ==
  /\ Len(clients) = 2
  /\ clients[1].email = clients[2].email
  /\ clients[1].userId /= clients[2].userId
  /\ \E i \in DOMAIN requests :
       /\ requests[i].error = "CONFLICT"
       /\ requests[i].raisedBy = "index"
       /\ requests[i].email = clients[1].email

\* x to the nearest cent, a tie away from zero
RoundHalfAway(x) ==
  IF x >= 0 THEN ((x + Cent \div 2) \div Cent) * Cent
  ELSE -((((-x) + Cent \div 2) \div Cent) * Cent)

\* C21: the derived monetary fields a save stores (subtotal, discountAmount,
\* taxAmount, total, remainingBalance) are the aggregated amounts rounded to 2
\* decimal places with ties away from zero, for positive and for negative
\* values alike.
C21_RoundHalfAwayFromZero ==
  [][ Called("save") =>
        LET after == invoice'
        IN  /\ after.subtotal = RoundHalfAway(AggSubtotal(invoice))
            /\ after.discountAmount = RoundHalfAway(AggDiscount(invoice))
            /\ after.taxAmount = RoundHalfAway(AggTax(invoice))
            /\ after.total = RoundHalfAway(AggTotal(invoice))
            /\ after.remainingBalance = RoundHalfAway(AggBalance(invoice))
    ]_vars

\* the fixed discount of the invoice exceeds the subtotal of its items
DiscountExceeds(inv) ==
  inv.discountType = "fixed" /\ inv.discountValue > AggSubtotal(inv)

\* C22: when a fixed discountValue exceeds the subtotal, the negative taxable
\* amount flows unclamped into taxAmount and total, no error is raised and the
\* invoice is persisted with those values, on the first save and on every
\* later save.
C22_NegativeTotalsPersist ==
  [][ (lastCall'.name = "save" /\ now' = now /\ DiscountExceeds(invoice)) =>
        LET after == invoice'
        IN  /\ lastCall'.ok
            /\ stored' = << after >>
            /\ after.taxAmount = Round2(AggTax(invoice))
            /\ after.total = Round2(AggTotal(invoice))
            /\ after.total < 0
            /\ invoice.taxRate > 0 => after.taxAmount < 0
    ]_vars

\* C23: from any status (draft, sent, viewed, overdue and also cancelled), an
\* addPayment that brings remainingBalance to <= 0.01 sets status = paid and
\* sets paidAt.
C23_PaidFromAnyStatus ==
  [][ ( /\ Called("addPayment")
        /\ invoice.status \in {"draft", "sent", "viewed", "overdue", "cancelled"}
        /\ invoice'.remainingBalance <= Tolerance )
      => /\ invoice'.status = "paid"
         /\ invoice'.paidAt = At(now)
    ]_vars

\* a cancelled invoice, saved as cancelled, whose second payment of 5.00
\* settles its 10.00: paid
C23_Witness ==
  /\ lastCall.name = "addPayment"
  /\ Saved /\ stored[1].status = "cancelled" /\ stored[1].payments = <<>>
  /\ Len(invoice.payments) = 2
  /\ invoice.remainingBalance = 0
  /\ invoice.status = "paid"
  /\ invoice.paidAt /= NoDate

\* the invoices of the owner in the collection that were issued in the year
IssuedIn(coll, userId, year) ==
  Cardinality({ k \in DOMAIN coll :
                  coll[k].userId = userId /\ getFullYear(coll[k].issueDate) = year })

\* C24: the sequence of an auto-generated invoice number is a per-owner,
\* per-year counter: the number the hook gives a new invoice is
\* INV-<year>-<n + 1>, n being the invoices of that owner issued in that year;
\* invoices of other owners and of other years do not advance it.
C24_SequencePerOwnerPerYear ==
  [][ Called("preSaveNumber") =>
        invoice'.number =
          invoiceNumber(getFullYear(now),
                        IssuedIn(stored, invoice'.userId, getFullYear(now)))
    ]_vars

\* C28: in a sequential history of one owner's creations under generated
\* numbers and of deletions, the number generated for a new invoice differs
\* from the numbers of the owner's existing invoices, so its insert succeeds.
C28_GeneratedNumberIsFree ==
  [][ Called("preSaveNumber") => uniqueIndexAllows(stored, 0, invoice') ]_vars

\* C25: in every state reachable by saves, item and parameter edits,
\* addPayment, markAsPaid, markAsSent and markAsViewed, an invoice whose status
\* is paid has remainingBalance <= 0.01.
C25_PaidMeansSettled ==
  invoice.status = "paid" => invoice.remainingBalance <= Tolerance

\* C26, as stated: in every state reachable by addPayment, markAsPaid (with
\* or without payment details) and save, totalPaid equals the sum of the
\* amounts in the payments list.
C26_TotalPaidIsLedgerSum ==
  invoice.totalPaid = SumAmounts(invoice.payments)

\* C26, amended: every addPayment and every markAsPaid with payment details
\* leaves totalPaid equal to the sum of the amounts in the payments list and a
\* save changes neither of the two; markAsPaid() without payment details sets
\* totalPaid to total and leaves the list as it was.
C26_TotalPaidPerOperation ==
  [][ /\ (Called("addPayment") \/ (Called("markAsPaid") /\ lastCall'.arg /= <<>>))
           => invoice'.totalPaid = SumAmounts(invoice'.payments)
      /\ Called("save")
           => invoice'.totalPaid = invoice.totalPaid /\ invoice'.payments = invoice.payments
      /\ (Called("markAsPaid") /\ lastCall'.arg = <<>>)
           => invoice'.totalPaid = invoice.total /\ invoice'.payments = invoice.payments
    ]_vars

\* a saved invoice of 10.00 with one payment of 5.00 on its list, marked paid
\* without details and saved again: totalPaid is 10.00, the list sums to 5.00
C26_Witness ==
  /\ lastCall.name = "save" /\ lastCall.ok
  /\ invoice.status = "paid"
  /\ invoice.total = Mills(10000)
  /\ invoice.totalPaid = Mills(10000)
  /\ Len(invoice.payments) = 1
  /\ SumAmounts(invoice.payments) = Mills(5000)
  /\ stored = << invoice >>

\* C27: addPayment marks an invoice paid only when the sum of its payments is
\* within 0.01 of the total that the aggregation yields for the invoice's
\* current items and parameters, also when the invoice was never saved or its
\* items changed since the last save.
C27_PaidAgainstCurrentTotal ==
  [][ (Called("addPayment") /\ invoice.status /= "paid" /\ invoice'.status = "paid")
        => AggTotal(invoice') - SumAmounts(invoice'.payments) <= Tolerance
    ]_vars

\* C29: once status is paid and paidAt is set, later addPayment, markAsPaid
\* and save calls leave paidAt unchanged.
C29_PaidAtIsFirstPayment ==
  [][ ( /\ invoice.status = "paid" /\ invoice.paidAt /= NoDate
        /\ Called("addPayment") \/ Called("markAsPaid") \/ Called("save") )
      => invoice'.paidAt = invoice.paidAt
    ]_vars

\* C30: after every save the stored rounded fields are consistent:
\* total = subtotal - discountAmount + taxAmount + shippingCost and
\* remainingBalance = total - totalPaid, exactly.
C30_StoredFieldsAddUp ==
  [][ Called("save") =>
        LET s == stored'[1]
        IN  /\ s.total = s.subtotal - s.discountAmount + s.taxAmount + s.shippingCost
            /\ s.remainingBalance = s.total - s.totalPaid
    ]_vars

====
